---- MODULE Spec2Model ----
(***************************************************************************)
(* Model of scripts/python/network-scanner.py: ARP host discovery, the     *)
(* per-host multi-threaded TCP port scan, the export of the result set and *)
(* the comparison of the result set against a baseline file.               *)
(***************************************************************************)
EXTENDS Integers, Sequences, FiniteSets, TLC

(***************************************************************************)
(* Bounds of the model.                                                    *)
(***************************************************************************)
\* longest port list given to a run
MaxPorts == 3
\* most ARP responses received in the wait window of srp
MaxAnswers == 2
\* longest current result set / baseline list drawn for the pure comparison
MaxCur == 2

\* the concurrency limit of line 27, scaled down from 100 so that a port
\* list of MaxPorts entries spans more than one batch
THREADS == 2

\* ports that may appear in a port list or in a baseline record
PortPool == {22, 80}

\* addresses that may answer the ARP sweep (octets of the dotted string)
HostPool == {<<10, 0, 0, 9>>, <<10, 0, 0, 10>>}

(***************************************************************************)
(* Values                                                                  *)
(***************************************************************************)
Range(s) == {s[k] : k \in 1..Len(s)}

SeqsUpTo(S, n) == UNION {[1..m -> S] : m \in 0..n}

\* decimal rendering of a non-negative integer, as character codes
RECURSIVE DecStr(_)
DecStr(n) == IF n < 10 THEN <<48 + n>> ELSE DecStr(n \div 10) \o <<48 + (n % 10)>>

\* the dotted-decimal string scapy yields for recv.psrc, as character codes
IpStr(a) == DecStr(a[1]) \o <<46>> \o DecStr(a[2]) \o <<46>> \o DecStr(a[3]) \o <<46>> \o DecStr(a[4])

\* python's < on str: lexicographic by code point, a proper prefix is smaller
StrLess(s, t) ==
    LET n == IF Len(s) < Len(t) THEN Len(s) ELSE Len(t)
        d == {k \in 1..n : s[k] # t[k]}
    IN  IF d = {} THEN Len(s) < Len(t)
        ELSE LET k == CHOOSE x \in d : \A y \in d : x <= y IN s[k] < t[k]

\* the key sorted() compares for a list of address strings
HostLess(a, b) == StrLess(IpStr(a), IpStr(b))

\* sorted(list of str): stable sort, ascending by HostLess
RECURSIVE sorted_hosts(_)
sorted_hosts(s) ==
    IF s = <<>> THEN <<>>
    ELSE LET x == s[Len(s)]
             r == sorted_hosts(SubSeq(s, 1, Len(s) - 1))
             k == Cardinality({n \in 1..Len(r) : ~HostLess(x, r[n])})
         IN  SubSeq(r, 1, k) \o <<x>> \o SubSeq(r, k + 1, Len(r))

\* list(set) without the sort: the members in descending order
RECURSIVE listed_ports(_)
listed_ports(S) ==
    IF S = {} THEN <<>>
    ELSE LET m == CHOOSE x \in S : \A y \in S : x >= y
         IN  <<m>> \o listed_ports(S \ {m})

\* sorted(set of int): ascending list of the members
RECURSIVE sorted_ports(_)
sorted_ports(S) ==
    IF S = {} THEN <<>>
    ELSE LET m == CHOOSE x \in S : \A y \in S : x <= y
         IN  <<m>> \o sorted_ports(S \ {m})

\* an srp that keeps every response (multi=True)
srp_multi(responses) == responses

\* line 55: srp(packet, timeout=2, verbose=0), as the sources of the answered
\* list it returns. Each probe of the sweep asks for one address and is
\* dropped from the pending probes once it is answered (the default
\* multi=False), so a further response from the same address matches no probe
\* and is not in answered: the first response of each address, in arrival order
RECURSIVE srp(_)
srp(responses) ==
    IF responses = <<>> THEN <<>>
    ELSE LET before == srp(SubSeq(responses, 1, Len(responses) - 1))
             last == responses[Len(responses)]
         IN  IF last \in Range(before) THEN before ELSE Append(before, last)

\* discover_hosts (line 56): the psrc of every (sent, received) pair of
\* answered, sorted as strings
discover_hosts(answered) == sorted_hosts(answered)


(***************************************************************************)
(* State                                                                   *)
(***************************************************************************)
VARIABLES
    pc,          \* position of the main thread
    ports,       \* main: the parsed port list
    live_hosts,  \* main: the list discover_hosts returned
    h,           \* main: index in live_hosts of the host being scanned
    results,     \* main: the scan records appended so far
    clock,       \* datetime.now(), as a counter
    i,           \* scan_host_ports: index in ports of the next port to start
    threads,     \* scan_host_ports: the thread list of the current batch
    j,           \* scan_host_ports: index in threads of the next join
    open_ports,  \* scan_host_ports: the accumulator shared with the threads
    tpc,         \* position of each probe thread inside scan_port
    tres,        \* outcome of each probe thread's connect_ex
    writer,      \* the thread executing open_ports.add under the interpreter lock, 0 if none
    snap,        \* the accumulator content each thread's add works on
    connected,   \* history: ports of this call whose connect_ex returned 0
    sock,        \* each probe thread's socket: "none", "open", "closed" or "released"
    thost,       \* index in live_hosts of the host each probe thread was started for
    received,    \* history: the sources of the ARP responses that arrived, in arrival order
    console,     \* the messages main has printed
    baseline_path, \* main: args.baseline, as "none", "out" (the JSON output path) or "other"
    prior,       \* history: what was at baseline_path before the run wrote its files
    saved,       \* the JSON and CSV files written by save_json / save_csv
    baseline,    \* what compare_with_baseline found at baseline_path
    changes      \* the change list compare_with_baseline returned

vars == <<pc, ports, live_hosts, h, results, clock, i, threads, j, open_ports,
          tpc, tres, writer, snap, connected, sock, thost, console, baseline_path, prior,
          saved, baseline, changes, received>>

mainVars == <<ports, live_hosts, h, results, clock, saved, baseline, changes,
              console, baseline_path, prior, received>>
scanVars == <<i, threads, j, open_ports, tpc, tres, writer, snap, connected, sock, thost>>

\* one probe thread per entry of the port list
ThreadIds == 1..MaxPorts

\* threads that were started and have not finished scan_port
InFlight ==
    {t \in ThreadIds : tpc[t] \in {"socket", "connect", "add", "adding", "close", "except", "return"}}

NoBaseline == [kind |-> "nopath", items |-> <<>>]

(***************************************************************************)
(* main: argument parsing and discovery (lines 143-160)                    *)
(***************************************************************************)
PortLists == SeqsUpTo(PortPool, MaxPorts)

\* the port lists given to a whole run: any length up to MaxPorts, one port
\* value (the calls of scan_host_ports are checked on PortLists by SpecScan)
RunPortLists == SeqsUpTo({22}, MaxPorts)

\* the responses of a sweep: any hosts of the network, a host may answer
\* more than once within the wait window
Responses == SeqsUpTo(HostPool, MaxAnswers)

Init ==
    /\ pc = "discover"
    /\ ports \in RunPortLists
    /\ live_hosts = <<>>
    /\ h = 1
    /\ results = <<>>
    /\ clock = 1
    /\ i = 1
    /\ threads = <<>>
    /\ j = 1
    /\ open_ports = {}
    /\ tpc = [t \in ThreadIds |-> "unstarted"]
    /\ tres = [t \in ThreadIds |-> "none"]
    /\ writer = 0
    /\ snap = [t \in ThreadIds |-> {}]
    /\ connected = {}
    /\ sock = [t \in ThreadIds |-> "none"]
    /\ thost = [t \in ThreadIds |-> 0]
    /\ console = {}
    /\ baseline_path = "none"
    /\ prior = NoBaseline
    /\ received = <<>>
    /\ saved = [written |-> FALSE, json |-> <<>>, csv |-> FALSE, change_file |-> FALSE]
    /\ baseline = NoBaseline
    /\ changes = <<>>

\* an emptiness test that never takes the early return
NoHostsIgnored(hosts) == FALSE

\* line 156: not live_hosts
NoHosts(hosts) == hosts = <<>>

\* lines 155-160: the ARP sweep answers, the sorted list, the empty case
Discover ==
    /\ pc = "discover"
    /\ \E responses \in Responses :
         /\ received' = responses
         /\ live_hosts' = discover_hosts(srp(responses))
         /\ pc' = IF NoHosts(live_hosts') THEN "nohosts" ELSE "call"
         /\ console' = console \cup {IF NoHosts(live_hosts') THEN "no_hosts" ELSE "found"}
    /\ UNCHANGED <<ports, h, results, clock, saved, baseline, changes, baseline_path, prior>>
    /\ UNCHANGED scanVars

(***************************************************************************)
(* scan_host_ports (lines 72-89), called from the loop of lines 164-167    *)
(***************************************************************************)
\* lines 73-74: a fresh accumulator and thread list for live_hosts[h]
BeginScan ==
    /\ pc = "call"
    /\ open_ports' = {}
    /\ threads' = <<>>
    /\ i' = 1
    /\ j' = 1
    /\ tpc' = [t \in ThreadIds |-> "unstarted"]
    /\ tres' = [t \in ThreadIds |-> "none"]
    /\ snap' = [t \in ThreadIds |-> {}]
    /\ connected' = {}
    /\ sock' = [t \in ThreadIds |-> "none"]
    /\ thost' = [t \in ThreadIds |-> 0]
    /\ pc' = IF Len(ports) = 0 THEN "join_rest" ELSE "dispatch"
    /\ UNCHANGED writer
    /\ UNCHANGED mainVars

\* a batch test that lets one thread too many start
BatchFullLate(ths) == Len(ths) > THREADS

\* line 79: the batch is full
BatchFull(ths) == Len(ths) >= THREADS

\* lines 75-79: create the thread for ports[i], append it, start it, test the batch size
StartThread ==
    /\ pc = "dispatch"
    /\ i <= Len(ports)
    /\ threads' = Append(threads, i)
    /\ tpc' = [tpc EXCEPT ![i] = "socket"]
    /\ thost' = [thost EXCEPT ![i] = h]
    /\ i' = i + 1
    /\ j' = 1
    /\ pc' = IF BatchFull(threads') THEN "join_batch"
             ELSE IF i' > Len(ports) THEN "join_rest" ELSE "dispatch"
    /\ UNCHANGED <<open_ports, tres, writer, snap, connected, sock>>
    /\ UNCHANGED mainVars

\* a join that returns without waiting for the thread
JoinedNoWait(t) == TRUE

\* a join that is never woken by a thread that ended in an exception
JoinedUnlessError(t) == tpc[t] = "done" /\ tres[t] # "error"

\* lines 81, 84: t.join() returns once thread t has finished
Joined(t) == tpc[t] = "done"

\* lines 80-82: join the threads of the full batch in list order, then clear the list
JoinBatch ==
    /\ pc = "join_batch"
    /\ Joined(threads[j])
    /\ IF j < Len(threads)
       THEN /\ j' = j + 1
            /\ UNCHANGED <<threads, pc>>
       ELSE /\ j' = 1
            /\ threads' = <<>>
            /\ pc' = IF i > Len(ports) THEN "join_rest" ELSE "dispatch"
    /\ UNCHANGED <<i, open_ports, tpc, tres, writer, snap, connected, sock, thost>>
    /\ UNCHANGED mainVars

\* lines 83-84: join what is left in the thread list
JoinRest ==
    /\ pc = "join_rest"
    /\ j <= Len(threads)
    /\ Joined(threads[j])
    /\ j' = j + 1
    /\ UNCHANGED <<pc, i, threads, open_ports, tpc, tres, writer, snap, connected, sock, thost>>
    /\ UNCHANGED mainVars

\* lines 85-89: the record scan_host_ports returns
ScanRecord(ip, acc, now) ==
    [ip |-> ip, open_ports |-> sorted_ports(acc), scanned_at |-> now]

\* a return that does not run the loop of lines 83-84
AllJoinedSkipped == TRUE

\* lines 83-84: the loop over the thread list has ended
AllJoined == j > Len(threads)

\* a loop that walks live_hosts from its end
HostAtReversed(k) == live_hosts[Len(live_hosts) + 1 - k]

\* line 164: the k-th host of the loop over live_hosts
HostAt(k) == live_hosts[k]

\* lines 85-89 and 166-167: build the record, return, append it to results
Return ==
    /\ pc = "join_rest"
    /\ AllJoined
    /\ results' = Append(results, ScanRecord(HostAt(h), open_ports, clock))
    /\ clock' = clock + 1
    /\ h' = h + 1
    /\ pc' = IF h' > Len(live_hosts) THEN "export" ELSE "call"
    /\ UNCHANGED <<ports, live_hosts, saved, baseline, changes, console, baseline_path, prior,
                   received>>
    /\ UNCHANGED scanVars

(***************************************************************************)
(* scan_port (lines 61-70), run by each probe thread                       *)
(***************************************************************************)
\* a probe that records the port whatever connect_ex returned
AfterConnectNoTest(r) == IF r = "error" THEN "except" ELSE "add"

\* lines 66-70: where scan_port goes on after connect_ex: the add when it
\* returned 0 ("open"), the close when it returned an error code ("closed"),
\* and the except clause of lines 69-70 when settimeout or connect_ex raised
\* on the socket of line 63 ("error")
AfterConnect(r) ==
    CASE r = "open" -> "add"
      [] r = "closed" -> "close"
      [] OTHER -> "except"

\* lines 63-68: thread t holds a socket that was created and is neither
\* closed by line 68 nor released with the frame of scan_port
SocketOpen(t) == sock[t] = "open"

\* a runtime that keeps a socket nothing refers to any more
FinalizedNever(s) == s

\* lines 69-70: the except/pass path ends scan_port without reaching
\* sock.close(); the local `sock` is the only reference to the socket, and the
\* reference-counting interpreter finalizes it, closing the descriptor, when
\* the frame of scan_port is released
Finalized(s) == IF s = "open" THEN "released" ELSE s

\* line 63: socket.socket() returns a socket, or raises (no descriptor left)
\* and control goes to the except clause without a socket
CreateSocket(t) ==
    /\ tpc[t] = "socket"
    /\ \/ /\ sock' = [sock EXCEPT ![t] = "open"]
          /\ tpc' = [tpc EXCEPT ![t] = "connect"]
          /\ UNCHANGED tres
       \/ /\ tres' = [tres EXCEPT ![t] = "error"]
          /\ tpc' = [tpc EXCEPT ![t] = AfterConnect("error")]
          /\ UNCHANGED sock
    /\ UNCHANGED <<pc, i, threads, j, open_ports, writer, snap, connected, thost>>
    /\ UNCHANGED mainVars

\* lines 64-66: settimeout, connect_ex: 0, an error code, or an exception
Connect(t) ==
    /\ tpc[t] = "connect"
    /\ \E r \in {"open", "closed", "error"} :
         /\ tres' = [tres EXCEPT ![t] = r]
         /\ tpc' = [tpc EXCEPT ![t] = AfterConnect(r)]
         /\ connected' = IF r = "open" THEN connected \cup {ports[t]} ELSE connected
    /\ UNCHANGED <<pc, i, threads, j, open_ports, writer, snap, sock, thost>>
    /\ UNCHANGED mainVars

\* an add that does not wait for the add in progress
MayWriteUnlocked(t) == TRUE

\* line 67: set.add is one call made while holding the interpreter lock
MayWrite(t) == writer = 0

\* line 67: open_ports.add(port) is entered
AddBegin(t) ==
    /\ tpc[t] = "add"
    /\ MayWrite(t)
    /\ writer' = t
    /\ snap' = [snap EXCEPT ![t] = open_ports]
    /\ tpc' = [tpc EXCEPT ![t] = "adding"]
    /\ UNCHANGED <<pc, i, threads, j, open_ports, tres, connected, sock, thost>>
    /\ UNCHANGED mainVars

\* line 67: open_ports.add(port) stores the port and returns
AddEnd(t) ==
    /\ tpc[t] = "adding"
    /\ open_ports' = snap[t] \cup {ports[t]}
    /\ writer' = IF writer = t THEN 0 ELSE writer
    /\ tpc' = [tpc EXCEPT ![t] = "close"]
    /\ UNCHANGED <<pc, i, threads, j, tres, snap, connected, sock, thost>>
    /\ UNCHANGED mainVars

\* line 68: sock.close(); scan_port returns, the thread has not ended yet
Close(t) ==
    /\ tpc[t] = "close"
    /\ tpc' = [tpc EXCEPT ![t] = "return"]
    /\ sock' = [sock EXCEPT ![t] = "closed"]
    /\ UNCHANGED <<pc, i, threads, j, open_ports, tres, writer, snap, connected, thost>>
    /\ UNCHANGED mainVars

\* lines 69-70: except/pass; scan_port returns and its frame is released,
\* the thread has not ended yet
ExceptPass(t) ==
    /\ tpc[t] = "except"
    /\ tpc' = [tpc EXCEPT ![t] = "return"]
    /\ sock' = [sock EXCEPT ![t] = Finalized(sock[t])]
    /\ UNCHANGED <<pc, i, threads, j, open_ports, tres, writer, snap, connected, thost>>
    /\ UNCHANGED mainVars

\* line 77 (Thread(target=scan_port)): after the target has returned the
\* thread ends, which is what join (lines 81, 84) waits for
ThreadEnd(t) ==
    /\ tpc[t] = "return"
    /\ tpc' = [tpc EXCEPT ![t] = "done"]
    /\ UNCHANGED <<pc, i, threads, j, open_ports, tres, writer, snap, connected, sock, thost>>
    /\ UNCHANGED mainVars


(***************************************************************************)
(* save_json, save_csv (lines 94-107), called at lines 170-173             *)
(***************************************************************************)
Export ==
    /\ pc = "export"
    /\ saved' = [saved EXCEPT !.written = TRUE, !.json = results, !.csv = (results # <<>>)]
    /\ pc' = "compare"
    /\ UNCHANGED <<ports, live_hosts, h, results, clock, baseline, changes,
                   console, baseline_path, prior, received>>
    /\ UNCHANGED scanVars

(***************************************************************************)
(* compare_with_baseline (lines 112-137)                                   *)
(***************************************************************************)
\* what the function finds at baseline_path:
\*   "nopath"      no --baseline argument (line 113)
\*   "unreadable"  open or json.load raises (lines 115-120)
\*   "scalar"      json.load returns a value whose elements cannot be indexed by key
\*   "list"        json.load returns a list of objects, the items
Unreadable == [kind |-> "unreadable", items |-> <<>>]
Scalar == [kind |-> "scalar", items |-> <<>>]
Loaded(items) == [kind |-> "list", items |-> items]

\* line 122 evaluates h['ip'] and h['open_ports'] for every element
ShapeOk(b) ==
    /\ b.kind = "list"
    /\ \A k \in 1..Len(b.items) : {"ip", "open_ports"} \subseteq DOMAIN b.items[k]

\* line 122: the dict comprehension, a later record of an ip replaces an earlier one
old_map(items) ==
    [ip \in {items[k].ip : k \in 1..Len(items)} |->
        LET last == CHOOSE k \in 1..Len(items) :
                        /\ items[k].ip = ip
                        /\ \A n \in 1..Len(items) : items[n].ip = ip => n <= k
        IN  Range(items[last].open_ports)]

\* a lookup that never finds the ip
old_ports_missing(m, ip) == {}

\* line 127: old_map.get(ip, set())
old_ports(m, ip) == IF ip \in DOMAIN m THEN m[ip] ELSE {}

\* the first difference with its operands exchanged
added_swapped(new_ports, old) == old \ new_ports

\* lines 128-129: the two set differences
added_of(new_ports, old) == new_ports \ old
removed_of(new_ports, old) == old \ new_ports

\* a test that asks for both differences
differs_both(added, removed) == added # {} /\ removed # {}

\* line 130: the host changed
differs(added, removed) == added # {} \/ removed # {}

\* lines 131-136: the change record of one host
ChangeRecord(host, added, removed) ==
    [ip |-> host.ip, added_ports |-> sorted_ports(added),
     removed_ports |-> sorted_ports(removed), detected_at |-> host.scanned_at]

\* lines 123-137: the loop over current, one record per host that differs
RECURSIVE change_loop(_, _)
change_loop(current, m) ==
    IF current = <<>> THEN <<>>
    ELSE LET host == current[Len(current)]
             new_ports == Range(host.open_ports)
             old == old_ports(m, host.ip)
             added == added_of(new_ports, old)
             removed == removed_of(new_ports, old)
             before == change_loop(SubSeq(current, 1, Len(current) - 1), m)
         IN  IF differs(added, removed)
             THEN Append(before, ChangeRecord(host, added, removed))
             ELSE before

\* a comparison that also walks the baseline hosts missing from current
compare_both_ways(current, b) ==
    IF b.kind \in {"nopath", "unreadable"} THEN [raised |-> FALSE, changes |-> <<>>]
    ELSE IF ~ShapeOk(b) THEN [raised |-> TRUE, changes |-> <<>>]
    ELSE LET Gone(r) == \A k \in 1..Len(current) : current[k].ip # r.ip
         IN  [raised |-> FALSE,
              changes |-> change_loop(current, old_map(b.items))
                            \o change_loop(SelectSeq(b.items, Gone), <<>>)]

\* lines 112-137: the list returned, or the exception that leaves the function
compare_with_baseline(current, b) ==
    IF b.kind \in {"nopath", "unreadable"} THEN [raised |-> FALSE, changes |-> <<>>]
    ELSE IF ~ShapeOk(b) THEN [raised |-> TRUE, changes |-> <<>>]
    ELSE [raised |-> FALSE, changes |-> change_loop(current, old_map(b.items))]

\* the open_ports lists a saved scan can hold
PortSeqs == {sorted_ports(S) : S \in SUBSET PortPool}

\* records of an earlier scan: one host, any open ports
OldRecords == [ip : {<<10, 0, 0, 9>>}, open_ports : PortSeqs, scanned_at : {0}]

\* objects of a baseline file that lack a key
BadRecords == {[ip |-> <<10, 0, 0, 9>>], [open_ports |-> <<22>>]}

\* what a file left by something else than this run may hold; cur is the
\* result set of this run (an earlier run may have saved the same)
BaselineFiles(cur) ==
    {Unreadable, Scalar, Loaded(cur)}
        \cup {Loaded(<<r>>) : r \in OldRecords}
        \cup {Loaded(<<r>>) : r \in BadRecords}

\* lines 116-117 after lines 170-173: what open(baseline_path) and json.load
\* yield. The JSON output path ("out") holds what save_json has just written
\* there; the CSV output path ("csv") holds the CSV text save_csv has just
\* written there, which json.load rejects
ReadBaseline(path, before) ==
    CASE path = "none" -> NoBaseline
      [] path = "out" -> Loaded(saved.json)
      [] path = "csv" -> IF saved.csv THEN Unreadable ELSE before
      [] OTHER -> before

\* lines 176-184: compare, write the change file, finish; an exception ends
\* the run. args.baseline and the earlier content of that path are not read
\* before this point and are drawn here
Compare ==
    /\ pc = "compare"
    /\ \E path \in {"none", "out", "csv", "other"} :
       \E before \in (IF path = "none" THEN {NoBaseline} ELSE BaselineFiles(results)) :
         LET b == ReadBaseline(path, before)
             r == compare_with_baseline(results, b)
         IN  /\ baseline_path' = path
             /\ prior' = before
             /\ baseline' = b
             /\ IF r.raised
                THEN /\ pc' = "crashed"
                     /\ UNCHANGED <<changes, saved, console>>
                ELSE /\ changes' = r.changes
                     /\ saved' = [saved EXCEPT !.change_file = (r.changes # <<>>)]
                     /\ console' = console \cup
                           {IF r.changes # <<>> THEN "changed" ELSE "no_changes", "complete"}
                     /\ pc' = "done"
    /\ UNCHANGED <<ports, live_hosts, h, results, clock, received>>
    /\ UNCHANGED scanVars

(***************************************************************************)
(* Specification of a run of main                                          *)
(***************************************************************************)
Next ==
    \/ Discover
    \/ BeginScan
    \/ StartThread
    \/ JoinBatch
    \/ JoinRest
    \/ Return
    \/ \E t \in ThreadIds : CreateSocket(t)
    \/ \E t \in ThreadIds : Connect(t)
    \/ \E t \in ThreadIds : AddBegin(t)
    \/ \E t \in ThreadIds : AddEnd(t)
    \/ \E t \in ThreadIds : Close(t)
    \/ \E t \in ThreadIds : ExceptPass(t)
    \/ \E t \in ThreadIds : ThreadEnd(t)
    \/ Export
    \/ Compare

Spec == Init /\ [][Next]_vars

(***************************************************************************)
(* Specification of one call of scan_host_ports, on any port list         *)
(***************************************************************************)
InitScan ==
    /\ pc = "call"
    /\ ports \in PortLists
    /\ live_hosts \in {<<a>> : a \in HostPool}
    /\ h = 1
    /\ results = <<>>
    /\ clock = 1
    /\ i = 1
    /\ threads = <<>>
    /\ j = 1
    /\ open_ports = {}
    /\ tpc = [t \in ThreadIds |-> "unstarted"]
    /\ tres = [t \in ThreadIds |-> "none"]
    /\ writer = 0
    /\ snap = [t \in ThreadIds |-> {}]
    /\ connected = {}
    /\ sock = [t \in ThreadIds |-> "none"]
    /\ thost = [t \in ThreadIds |-> 0]
    /\ console = {"found"}
    /\ baseline_path = "none"
    /\ prior = NoBaseline
    /\ received = live_hosts
    /\ saved = [written |-> FALSE, json |-> <<>>, csv |-> FALSE, change_file |-> FALSE]
    /\ baseline = NoBaseline
    /\ changes = <<>>

NextScan ==
    \/ BeginScan
    \/ StartThread
    \/ JoinBatch
    \/ JoinRest
    \/ Return
    \/ \E t \in ThreadIds : CreateSocket(t)
    \/ \E t \in ThreadIds : Connect(t)
    \/ \E t \in ThreadIds : AddBegin(t)
    \/ \E t \in ThreadIds : AddEnd(t)
    \/ \E t \in ThreadIds : Close(t)
    \/ \E t \in ThreadIds : ExceptPass(t)
    \/ \E t \in ThreadIds : ThreadEnd(t)

SpecScan == InitScan /\ [][NextScan]_vars

\* fair scheduling: every thread that can take a step eventually takes it,
\* and every probe attempt ends (connect_ex returns or raises within its timeout)
Fairness ==
    /\ WF_vars(BeginScan)
    /\ WF_vars(StartThread)
    /\ WF_vars(JoinBatch)
    /\ WF_vars(JoinRest)
    /\ WF_vars(Return)
    /\ \A t \in ThreadIds :
          /\ WF_vars(CreateSocket(t))
          /\ WF_vars(Connect(t))
          /\ WF_vars(AddBegin(t))
          /\ WF_vars(AddEnd(t))
          /\ WF_vars(Close(t))
          /\ WF_vars(ExceptPass(t))
          /\ WF_vars(ThreadEnd(t))

SpecLive == SpecScan /\ Fairness

(***************************************************************************)
(* Specification of compare_with_baseline alone, on drawn arguments        *)
(***************************************************************************)
\* result sets: any sequence of records, scanned_at increasing along it
CurrentInputs ==
    {[k \in 1..Len(s) |-> [ip |-> s[k][1], open_ports |-> s[k][2], scanned_at |-> k]] :
        s \in SeqsUpTo(HostPool \X PortSeqs, MaxCur)}

\* well-formed baselines: any sequence of records of an earlier scan (InitDiff
\* adds the file that holds current itself)
BaselineInputs ==
    {Loaded([k \in 1..Len(s) |-> [ip |-> s[k][1], open_ports |-> s[k][2], scanned_at |-> 0]]) :
        s \in SeqsUpTo(HostPool \X PortSeqs, MaxCur)}

InitDiff ==
    /\ pc = "diff"
    /\ results \in CurrentInputs
    /\ baseline \in BaselineInputs \cup {Loaded(results)}
    /\ ports = <<>>
    /\ live_hosts = <<>>
    /\ h = 1
    /\ clock = 1
    /\ i = 1
    /\ threads = <<>>
    /\ j = 1
    /\ open_ports = {}
    /\ tpc = [t \in ThreadIds |-> "unstarted"]
    /\ tres = [t \in ThreadIds |-> "none"]
    /\ writer = 0
    /\ snap = [t \in ThreadIds |-> {}]
    /\ connected = {}
    /\ sock = [t \in ThreadIds |-> "none"]
    /\ thost = [t \in ThreadIds |-> 0]
    /\ console = {}
    /\ baseline_path = "none"
    /\ prior = NoBaseline
    /\ received = <<>>
    /\ saved = [written |-> FALSE, json |-> <<>>, csv |-> FALSE, change_file |-> FALSE]
    /\ changes = <<>>

\* one call of compare_with_baseline on the drawn arguments
Diff ==
    /\ pc = "diff"
    /\ LET r == compare_with_baseline(results, baseline)
       IN  /\ changes' = r.changes
           /\ pc' = IF r.raised THEN "diff_raised" ELSE "diffed"
    /\ UNCHANGED <<ports, live_hosts, h, results, clock, saved, baseline,
                   console, baseline_path, prior, received>>
    /\ UNCHANGED scanVars

NextDiff == Diff

SpecDiff == InitDiff /\ [][NextDiff]_vars


(***************************************************************************)
(* Properties                                                              *)
(***************************************************************************)
Ascending(s) == \A a, b \in 1..Len(s) : a < b => s[a] < s[b]

LastRecord == results[Len(results)]

\* the numeric value of an IPv4 address
IpNum(a) == ((a[1] * 256 + a[2]) * 256 + a[3]) * 256 + a[4]

\* C1: at every moment of scan_host_ports the number of probe threads that
\* were started and have not finished is at most THREADS.
C1_InFlightBounded == Cardinality(InFlight) <= THREADS

\* C1 witness: a full batch is in flight while ports remain to be started
C1_Witness ==
    /\ Cardinality(InFlight) = THREADS
    /\ pc = "join_batch"
    /\ i <= Len(ports)

\* C2: the record scan_host_ports returns lists exactly the ports on which a
\* connect succeeded during the call, ascending and without duplicates,
\* whatever the order in which the probe threads ran.
C2_ReturnsExactlyOpen ==
    (pc \in {"call", "export"} /\ results # <<>>) =>
        /\ Range(LastRecord.open_ports) = connected
        /\ Ascending(LastRecord.open_ports)

\* C2 witness: a call returned two open ports that were listed in descending
\* order, with another probe of the call failing
C2_Witness ==
    /\ pc = "export"
    /\ Len(LastRecord.open_ports) = 2
    /\ Len(ports) >= 2
    /\ ports[1] > ports[2]
    /\ \E t \in 1..Len(ports) : tres[t] # "open"

\* C3: the scan records of a run are in ascending order of the numeric value
\* of their host address.
C3_NumericOrder ==
    \A a, b \in 1..Len(results) :
        a < b => IpNum(results[a].ip) <= IpNum(results[b].ip)

\* C4: whatever responses arrived, the discovered-host list holds each
\* responding address once and no other address, and the result set of the run
\* holds one record per distinct responding host.
C4_Coalesced ==
    /\ \A a, b \in 1..Len(live_hosts) : a # b => live_hosts[a] # live_hosts[b]
    /\ pc # "discover" => Range(live_hosts) = Range(received)
    /\ \A a, b \in 1..Len(results) : a # b => results[a].ip # results[b].ip
    /\ pc \in {"export", "compare", "done", "crashed"} =>
          {results[k].ip : k \in 1..Len(results)} = Range(received)

\* C4 witness: a host answered twice and the scans of the run are over
C4_Witness ==
    /\ pc = "export"
    /\ Len(received) > Cardinality(Range(received))
    /\ Len(results) = Cardinality(Range(received))

\* C5: no two probe threads are inside a write of the accumulator at the same
\* time, and every hit a thread has recorded is in the accumulator.
C5_WritesSynchronized ==
    /\ Cardinality({t \in ThreadIds : tpc[t] = "adding"}) <= 1
    /\ \A t \in 1..Len(ports) :
          (tres[t] = "open" /\ tpc[t] \in {"close", "return", "done"}) => ports[t] \in open_ports

\* C5 witness: two threads of one batch hit different ports, one is writing
\* while the other is about to write
C5_Witness ==
    \E t, u \in 1..Len(ports) :
        /\ tpc[t] = "adding"
        /\ tpc[u] = "add"
        /\ ports[t] # ports[u]

\* the ports compare_with_baseline holds for an ip: those of the last baseline
\* record of that ip, none if the baseline has no such record
BaselinePorts(ip) ==
    LET ks == {k \in 1..Len(baseline.items) : baseline.items[k].ip = ip}
    IN  IF ks = {} THEN {}
        ELSE Range(baseline.items[CHOOSE k \in ks : \A n \in ks : n <= k].open_ports)

CurrentPorts(k) == Range(results[k].open_ports)
AddedAt(k) == CurrentPorts(k) \ BaselinePorts(results[k].ip)
RemovedAt(k) == BaselinePorts(results[k].ip) \ CurrentPorts(k)

\* positions of current whose host differs from the baseline
Changed == {k \in 1..Len(results) : AddedAt(k) # {} \/ RemovedAt(k) # {}}

\* the n-th changed position
NthChanged(n) == CHOOSE k \in Changed : Cardinality({m \in Changed : m <= k}) = n

\* C6: against a well-formed baseline there is one change record per host of
\* current whose added or removed set is non-empty and none for the others;
\* the record carries these two sets in ascending order and the scanned_at
\* of the host's record, and the records follow the order of current.
C6_ChangeSetExact ==
    pc = "diffed" =>
        /\ Len(changes) = Cardinality(Changed)
        /\ \A n \in 1..Len(changes) :
              LET k == NthChanged(n)
              IN  /\ changes[n].ip = results[k].ip
                  /\ Range(changes[n].added_ports) = AddedAt(k)
                  /\ Range(changes[n].removed_ports) = RemovedAt(k)
                  /\ Ascending(changes[n].added_ports)
                  /\ Ascending(changes[n].removed_ports)
                  /\ changes[n].detected_at = results[k].scanned_at

\* C6 witness: of two hosts the first is unchanged and the second has a port
\* added and a port removed
C6_Witness ==
    /\ pc = "diffed"
    /\ Len(results) = 2
    /\ Len(changes) = 1
    /\ changes[1].ip = results[2].ip
    /\ results[1].ip # results[2].ip
    /\ changes[1].added_ports # <<>>
    /\ changes[1].removed_ports # <<>>

\* C7 as stated: comparing any result set, also one with several records of
\* one ip, with a baseline that is element-wise equal to it yields an empty
\* change set.
C7_EqualBaselineNoChange ==
    (pc = "diffed" /\ baseline.items = results) => changes = <<>>

\* no two records of the result set have the same ip
DistinctIps == \A a, b \in 1..Len(results) : a # b => results[a].ip # results[b].ip

\* C7 amended: comparing a result set that has one record per ip with a
\* baseline that is element-wise equal to it yields an empty change set.
C7_EqualBaselineNoChangeDistinct ==
    (pc = "diffed" /\ baseline.items = results /\ DistinctIps) => changes = <<>>

\* C7 witness: two hosts with open ports compared with themselves
C7_Witness ==
    /\ pc = "diffed"
    /\ baseline.items = results
    /\ Len(results) = 2
    /\ DistinctIps
    /\ \A k \in 1..Len(results) : results[k].open_ports # <<>>
    /\ changes = <<>>

\* C8: a host of current with open ports and no record in the baseline has a
\* change record whose added_ports are all its open ports and whose
\* removed_ports are empty.
C8_NewHostAllAdded ==
    pc = "diffed" =>
        \A k \in 1..Len(results) :
            (/\ results[k].open_ports # <<>>
             /\ \A n \in 1..Len(baseline.items) : baseline.items[n].ip # results[k].ip)
            => \E n \in 1..Len(changes) :
                  /\ changes[n].ip = results[k].ip
                  /\ changes[n].added_ports = results[k].open_ports
                  /\ changes[n].removed_ports = <<>>
                  /\ changes[n].detected_at = results[k].scanned_at

\* C8 witness: a host with two open ports is missing from a non-empty baseline
C8_Witness ==
    /\ pc = "diffed"
    /\ baseline.items # <<>>
    /\ \E k \in 1..Len(results) :
          /\ Len(results[k].open_ports) = 2
          /\ \A n \in 1..Len(baseline.items) : baseline.items[n].ip # results[k].ip

\* C9: every ip of the change set is the ip of a record of current.
C9_OnlyCurrentHosts ==
    pc = "diffed" =>
        \A n \in 1..Len(changes) : \E k \in 1..Len(results) : changes[n].ip = results[k].ip

\* C9 witness: the baseline has a host with open ports that current lacks,
\* and the comparison reported a change for a host of current
C9_Witness ==
    /\ pc = "diffed"
    /\ changes # <<>>
    /\ \E n \in 1..Len(baseline.items) :
          /\ baseline.items[n].open_ports # <<>>
          /\ \A k \in 1..Len(results) : results[k].ip # baseline.items[n].ip

\* C10: when the baseline is missing, unreadable or not of the expected shape
\* the comparison is skipped with an empty change set, no exception leaves
\* compare_with_baseline, the result set is saved and the run completes.
C10_BadBaselineNonFatal ==
    (pc \in {"done", "crashed"} /\ ~ShapeOk(baseline)) =>
        /\ pc = "done"
        /\ changes = <<>>
        /\ saved.written
        /\ saved.json = results


\* a call of scan_host_ports has returned and the next has not begun
Returned == pc \in {"call", "export"} /\ results # <<>>

\* C11: when discovery finds no host the run ends at the early return: no
\* probe thread was started, nothing was scanned or written, and the message
\* printed is one that a run with results never prints.
C11_NoHostsEndsQuietly ==
    /\ (pc # "discover" /\ live_hosts = <<>>) =>
          /\ pc = "nohosts"
          /\ \A t \in ThreadIds : tpc[t] = "unstarted"
          /\ results = <<>>
          /\ ~saved.written
          /\ console = {"no_hosts"}
    /\ results # <<>> => "no_hosts" \notin console

\* C11 witness: the sweep of a run that has ports to scan found nothing
C11_Witness == pc = "nohosts" /\ Len(ports) > THREADS

\* C12: a probe whose connect fails or raises never puts its port in the
\* accumulator and never goes on to the add, the failure stays inside the
\* thread, and every port of the list is still attempted before the call
\* returns.
C12_FailedProbeIsClosed ==
    /\ \A p \in open_ports : \E t \in 1..Len(ports) : ports[t] = p /\ tres[t] = "open"
    /\ \A t \in 1..Len(ports) : tres[t] \in {"closed", "error"} => tpc[t] \in {"close", "except", "return", "done"}
    /\ pc = "crashed" => saved.written
    /\ Returned => \A t \in 1..Len(ports) : tres[t] # "none"

\* C12 witness: a call returned after one probe raised, one was refused and a
\* later one connected
C12_Witness ==
    /\ Returned
    /\ \E t, u, v \in 1..Len(ports) :
          /\ t < v /\ u < v
          /\ tres[t] = "error"
          /\ tres[u] = "closed"
          /\ tres[v] = "open"
          /\ open_ports = {ports[v]}

\* connect attempts made on port p during the current call
Attempts(p) == Cardinality({t \in 1..Len(ports) : ports[t] = p /\ tres[t] # "none"})

\* C13: when scan_host_ports returns, every port of the requested ports has
\* been attempted exactly once.
C13_EachPortOnce == Returned => \A p \in Range(ports) : Attempts(p) = 1

\* C14: the baseline the comparison reads is what was at the baseline path
\* before the run started.
C14_ComparedAgainstPrior ==
    (pc \in {"done", "crashed"} /\ baseline_path # "none") => baseline = prior

\* the batch a port index belongs to
BatchOf(t) == (t - 1) \div THREADS

\* C15: no probe of a later batch is started before every probe of the
\* earlier batches has finished, and the call returns only when all ports
\* have been attempted and finished.
C15_BatchBarrier ==
    /\ \A t, u \in 1..Len(ports) :
          (BatchOf(u) < BatchOf(t) /\ tpc[t] # "unstarted") => tpc[u] = "done"
    /\ Returned => \A t \in 1..Len(ports) : tpc[t] = "done"

\* C15 witness: a probe of the second batch is in flight
C15_Witness ==
    \E t \in 1..Len(ports) : BatchOf(t) = 1 /\ tpc[t] = "connect"

\* the record was built from the accumulator when no probe was running
RecordedAfterJoin ==
    Returned =>
        /\ InFlight = {}
        /\ \A t \in 1..Len(ports) : tpc[t] = "done"
        /\ Range(LastRecord.open_ports) = open_ports
        /\ LastRecord.scanned_at = clock - 1

\* records are only appended, and the accumulator is not written after its read
RecordsFrozen ==
    /\ Len(results') >= Len(results)
    /\ \A k \in 1..Len(results) : results'[k] = results[k]
    /\ (pc \in {"call", "export"} /\ pc' = pc) => open_ports' = open_ports

\* C16: the accumulator is read and the record stamped only when every probe
\* thread of the host has finished, no thread writes the accumulator after
\* that, and a record of the result set never changes.
C16_ReadAfterAllFinished == []RecordedAfterJoin /\ [][RecordsFrozen]_vars

\* C16 witness: the record of a second host was built from a non-empty
\* accumulator after more than one batch
C16_Witness ==
    /\ pc = "export"
    /\ Len(results) = 2
    /\ LastRecord.open_ports # <<>>
    /\ Len(ports) > THREADS

\* C17: probes in flight all belong to the host being scanned, which is the
\* next host of live_hosts without a record; the records follow the order
\* of live_hosts, and a call for the next host begins with no probe in flight.
C17_OneHostAtATime ==
    /\ InFlight # {} =>
          /\ pc \in {"dispatch", "join_batch", "join_rest"}
          /\ Len(results) = h - 1
          /\ \A t \in InFlight : thost[t] = h
    /\ \A k \in 1..Len(results) : results[k].ip = live_hosts[k]
    /\ pc = "call" => (InFlight = {} /\ Len(results) = h - 1)

\* C17 witness: probes of the second of two different hosts are in flight
C17_Witness ==
    /\ h = 2
    /\ Cardinality(InFlight) = THREADS
    /\ live_hosts[1] # live_hosts[2]

\* C18: under fair scheduling a call of scan_host_ports returns, with every
\* thread it started finished.
C18_ScanReturns ==
    (pc \in {"call", "dispatch", "join_batch", "join_rest"}) ~>
        (pc = "export" /\ InFlight = {} /\ \A t \in 1..Len(ports) : tpc[t] = "done")

\* C18 witness: a call with more than one batch returned although probes failed
C18_Witness ==
    /\ pc = "export"
    /\ Len(ports) > THREADS
    /\ \E t, u \in 1..Len(ports) : tres[t] = "error" /\ tres[u] = "closed"

\* C19: a probe thread whose scan_port has returned holds no open socket
\* whatever the outcome of its attempt was, only threads in flight hold one,
\* and the open sockets are never more than THREADS.
C19_SocketsClosed ==
    /\ \A t \in ThreadIds : tpc[t] \in {"return", "done"} => ~SocketOpen(t)
    /\ \A t \in ThreadIds : SocketOpen(t) => t \in InFlight
    /\ Cardinality({t \in ThreadIds : SocketOpen(t)}) <= THREADS

\* C19 witness: a second batch holds a socket after a first batch in which one
\* attempt raised on its socket and another one connected
C19_Witness ==
    /\ \E t \in ThreadIds : SocketOpen(t) /\ BatchOf(t) = 1
    /\ \E t, u \in ThreadIds :
          /\ BatchOf(t) = 0 /\ tpc[t] = "done" /\ tres[t] = "error" /\ sock[t] = "released"
          /\ BatchOf(u) = 0 /\ tpc[u] = "done" /\ tres[u] = "open" /\ sock[u] = "closed"

====
